---------------------------- MODULE Spec2Model ----------------------------
(***************************************************************************)
(* A model of core/codegen/src/syn_ext.rs: the type unfolder               *)
(* (TypeExt::unfold, TypeExt::unfold_with_known_macros), the concreteness  *)
(* predicate (TypeExt::is_concrete) and IdentExt::uniqueify_with with its  *)
(* process-wide COUNTER.                                                   *)
(*                                                                         *)
(* A syn::Type is a record                                                 *)
(*     [kind, ident, args, tokens]                                         *)
(* kind   : the syn::Type variant,                                         *)
(* ident  : the last path identifier (Path and Macro types, "" otherwise), *)
(* args   : the type expressions syn::visit::visit_type reaches from the   *)
(*          node, in visiting order (generic arguments, tuple elements,    *)
(*          fn inputs and output, types in trait bounds),                  *)
(* tokens : the token stream of a macro invocation, [ty, junk]: the tokens *)
(*          of at most one type (ty is None or Some(type)) followed, when  *)
(*          junk holds, by tokens that belong to no type.                  *)
(*                                                                         *)
(* A node of a tree is named by its position: the sequence of steps from   *)
(* the root, step i > 0 to the i-th element of args, step 0 from a macro   *)
(* invocation to the type its tokens parse to.  Option<X> is the set None  *)
(* or Some(x).                                                             *)
(***************************************************************************)
EXTENDS Integers, Sequences, FiniteSets, TLC

None == {}
Some(x) == {x}
Unwrap(o) == CHOOSE x \in o : TRUE

NoTokens == [ty |-> None, junk |-> FALSE]

Ty(kind, ident, args) == [kind |-> kind, ident |-> ident, args |-> args, tokens |-> NoTokens]
TyMacro(ident, tokens) == [kind |-> "Macro", ident |-> ident, args |-> <<>>, tokens |-> tokens]

(* syn::parse2::<syn::Type>: the whole stream must be one type. *)
parse2(tokens) == IF tokens.junk THEN None ELSE tokens.ty

(* Child { parent, ty } *)
Child(parent, ty) == [parent |-> parent, ty |-> ty]

Last(s) == IF Len(s) = 0 THEN None ELSE Some(s[Len(s)])

(* A variant of known_macro_inner_ty that takes the type a token stream
   starts with, whatever follows it. *)
known_macro_inner_ty_prefix(t, known) ==
    IF ~ \E k \in DOMAIN known : t.ident = known[k]
    THEN None
    ELSE t.tokens.ty

(* known_macro_inner_ty: None unless the macro's last path identifier is one
   of `known`, and then the parse of its tokens. *)
known_macro_inner_ty(t, known) ==
    IF ~ \E k \in DOMAIN known : t.ident = known[k]
    THEN None
    ELSE parse2(t.tokens)

(* Visitor::new *)
Visitor_new == [parents |-> <<>>, children |-> <<>>]

RECURSIVE Visitor_visit_type(_, _, _, _)
RECURSIVE Visitor_visit_args(_, _, _, _, _)

(* syn::visit::visit_type(self, ty): visit_type on each type expression
   below ty, from the i-th on, in order. *)
Visitor_visit_args(self, ty, id, known, i) ==
    IF i > Len(ty.args)
    THEN self
    ELSE Visitor_visit_args(Visitor_visit_type(self, ty.args[i], Append(id, i), known),
                            ty, id, known, i + 1)

(* A variant of Visitor::visit_type without self.parents.pop(). *)
Visitor_visit_type_no_pop(self, ty, id, known) ==
    LET parent == Last(self.parents)
        inner  == IF ty.kind = "Macro" THEN known_macro_inner_ty(ty, known) ELSE None
    IN  IF inner # None
        THEN LET visitor0 == [Visitor_new EXCEPT
                                !.parents = IF parent # None
                                            THEN Append(@, Unwrap(parent))
                                            ELSE @]
                 visitor  == Visitor_visit_type(visitor0, Unwrap(inner), Append(id, 0), known)
             IN  [self EXCEPT !.children = @ \o visitor.children]
        ELSE LET pushed  == [parents  |-> Append(self.parents, id),
                             children |-> Append(self.children, Child(parent, id))]
             IN  Visitor_visit_args(pushed, ty, id, known, 1)

(* A variant that records the macro invocation before its expansion. *)
Visitor_visit_type_records_macro(self, ty, id, known) ==
    LET parent == Last(self.parents)
        inner  == IF ty.kind = "Macro" THEN known_macro_inner_ty(ty, known) ELSE None
    IN  IF inner # None
        THEN LET visitor0 == [Visitor_new EXCEPT
                                !.parents = IF parent # None
                                            THEN Append(@, Unwrap(parent))
                                            ELSE @]
                 visitor  == Visitor_visit_type(visitor0, Unwrap(inner), Append(id, 0), known)
             IN  [self EXCEPT !.children = Append(@, Child(parent, id)) \o visitor.children]
        ELSE LET pushed  == [parents  |-> Append(self.parents, id),
                             children |-> Append(self.children, Child(parent, id))]
                 visited == Visitor_visit_args(pushed, ty, id, known, 1)
             IN  [visited EXCEPT !.parents = SubSeq(@, 1, Len(@) - 1)]

(* A variant whose inner visitor starts with no parent. *)
Visitor_visit_type_no_seed(self, ty, id, known) ==
    LET parent == Last(self.parents)
        inner  == IF ty.kind = "Macro" THEN known_macro_inner_ty(ty, known) ELSE None
    IN  IF inner # None
        THEN LET visitor  == Visitor_visit_type(Visitor_new, Unwrap(inner), Append(id, 0), known)
             IN  [self EXCEPT !.children = @ \o visitor.children]
        ELSE LET pushed  == [parents  |-> Append(self.parents, id),
                             children |-> Append(self.children, Child(parent, id))]
                 visited == Visitor_visit_args(pushed, ty, id, known, 1)
             IN  [visited EXCEPT !.parents = SubSeq(@, 1, Len(@) - 1)]

(* A variant whose inner visitor starts with the macro invocation itself
   as the parent. *)
Visitor_visit_type_seeds_macro(self, ty, id, known) ==
    LET parent == Last(self.parents)
        inner  == IF ty.kind = "Macro" THEN known_macro_inner_ty(ty, known) ELSE None
    IN  IF inner # None
        THEN LET visitor0 == [Visitor_new EXCEPT !.parents = Append(@, id)]
                 visitor  == Visitor_visit_type(visitor0, Unwrap(inner), Append(id, 0), known)
             IN  [self EXCEPT !.children = @ \o visitor.children]
        ELSE LET pushed  == [parents  |-> Append(self.parents, id),
                             children |-> Append(self.children, Child(parent, id))]
                 visited == Visitor_visit_args(pushed, ty, id, known, 1)
             IN  [visited EXCEPT !.parents = SubSeq(@, 1, Len(@) - 1)]

(* Visitor::visit_type, on the node ty at position id. *)
Visitor_visit_type(self, ty, id, known) ==
    LET parent == Last(self.parents)
        inner  == IF ty.kind = "Macro" THEN known_macro_inner_ty(ty, known) ELSE None
    IN  IF inner # None
        THEN LET visitor0 == [Visitor_new EXCEPT
                                !.parents = IF parent # None
                                            THEN Append(@, Unwrap(parent))
                                            ELSE @]
                 visitor  == Visitor_visit_type(visitor0, Unwrap(inner), Append(id, 0), known)
             IN  [self EXCEPT !.children = @ \o visitor.children]
        ELSE LET pushed  == [parents  |-> Append(self.parents, id),
                             children |-> Append(self.children, Child(parent, id))]
                 visited == Visitor_visit_args(pushed, ty, id, known, 1)
             IN  [visited EXCEPT !.parents = SubSeq(@, 1, Len(@) - 1)]

unfold_with_known_macros(ty, known_macros) ==
    Visitor_visit_type(Visitor_new, ty, <<>>, known_macros).children

unfold(ty) == unfold_with_known_macros(ty, <<>>)

(* syn::Path::is_ident: a single segment without arguments. *)
is_ident(t, i) == t.ident = i /\ Len(t.args) = 0

RECURSIVE ConcreteVisitor_visit_type(_, _, _)
RECURSIVE ConcreteVisitor_visit_args(_, _, _, _)

ConcreteVisitor_visit_args(self, ty, id, i) ==
    IF i > Len(ty.args)
    THEN self
    ELSE ConcreteVisitor_visit_args(ConcreteVisitor_visit_type(self, ty.args[i], Append(id, i)),
                                    ty, id, i + 1)

(* A variant of ConcreteVisitor::visit_type that looks inside a function
   pointer. *)
ConcreteVisitor_visit_type_descends(self, ty, id) ==
    LET here == [self EXCEPT !.seen = @ \cup {id}]
    IN  CASE ty.kind = "Path" /\ (\E g \in DOMAIN self.generics : is_ident(ty, self.generics[g])) ->
                [here EXCEPT !.flag = FALSE]
          [] ty.kind \in {"ImplTrait", "Infer", "Macro"} ->
                [here EXCEPT !.flag = FALSE]
          [] ty.kind = "Never" ->
                [here EXCEPT !.flag = TRUE]
          [] OTHER ->
                ConcreteVisitor_visit_args(here, ty, id, 1)

(* ConcreteVisitor::visit_type.  self is [flag, generics, seen]: the
   visitor's two fields and the positions visit_type was called on. *)
ConcreteVisitor_visit_type(self, ty, id) ==
    LET here == [self EXCEPT !.seen = @ \cup {id}]
    IN  CASE ty.kind = "Path" /\ (\E g \in DOMAIN self.generics : is_ident(ty, self.generics[g])) ->
                [here EXCEPT !.flag = FALSE]
          [] ty.kind \in {"ImplTrait", "Infer", "Macro"} ->
                [here EXCEPT !.flag = FALSE]
          [] ty.kind \in {"BareFn", "Never"} ->
                [here EXCEPT !.flag = TRUE]
          [] OTHER ->
                ConcreteVisitor_visit_args(here, ty, id, 1)

ConcreteVisitor_run(ty, generics) ==
    ConcreteVisitor_visit_type([flag |-> TRUE, generics |-> generics, seen |-> {}], ty, <<>>)

is_concrete(ty, generics) == ConcreteVisitor_run(ty, generics).flag


(***************************************************************************)
(* The type expressions the operations are applied to: every tree of at    *)
(* most MaxNodes nodes over the variants below, and the tree of the        *)
(* module's own test.                                                      *)
(***************************************************************************)
MaxNodes == 4

(* Variants that carry type expressions: a path T<..>, a tuple (..), a
   function pointer fn(..). *)
Carriers == {<<"Path", "T">>, <<"Tuple", "">>, <<"BareFn", "">>}

(* Variants without: _, !, impl Trait, and k!() and m!() with an empty token
   stream. *)
Leaves ==
    {Ty("Infer", "", <<>>), Ty("Never", "", <<>>), Ty("ImplTrait", "", <<>>),
     TyMacro("k", NoTokens), TyMacro("m", NoTokens)}

Path(ident, args) == Ty("Path", ident, args)

(* A<B, C<impl Foo>, Box<dyn Foo>, Option<T>> *)
ExampleTy ==
    Path("A", <<Path("B", <<>>),
                Path("C", <<Ty("ImplTrait", "", <<>>)>>),
                Path("Box", <<Ty("TraitObject", "", <<>>)>>),
                Path("Option", <<Path("T", <<>>)>>)>>)

(* The trees with n nodes and a given head: one of Carriers over argument
   lists of n - 1 nodes, or the macro invocation m!(..) over the tokens of
   a type of n - 1 nodes, alone or followed by junk.  level[k] holds the
   trees and the argument lists of each smaller size k. *)
TypesHeaded(head, n, level) ==
    IF head[1] = "Macro"
    THEN IF n = 1 THEN {}
         ELSE {TyMacro(head[2], [ty |-> Some(t), junk |-> j]) :
                  t \in level[n - 1].types, j \in BOOLEAN}
    ELSE {Ty(head[1], head[2], args) :
             args \in (IF n = 1 THEN {<<>>} ELSE level[n - 1].args)}

Heads == Carriers \cup {<<"Macro", "m">>}

RECURSIVE TypesOverHeads(_, _, _)
TypesOverHeads(heads, n, level) ==
    IF heads = {} THEN {}
    ELSE LET head == CHOOSE h \in heads : TRUE
         IN  TypesHeaded(head, n, level) \cup TypesOverHeads(heads \ {head}, n, level)

(* The trees with exactly n nodes; the type in a macro's tokens counts. *)
TypesOfSize(n, level) ==
    (IF n = 1 THEN Leaves ELSE {}) \cup TypesOverHeads(Heads, n, level)

(* The sequences of trees with n nodes in all whose first tree has at most
   k < n of them. *)
RECURSIVE ArgsSplit(_, _, _)
ArgsSplit(n, k, level) ==
    IF k = 0 THEN {}
    ELSE {<<t>> \o rest : t \in level[k].types, rest \in level[n - k].args}
             \cup ArgsSplit(n, k - 1, level)

(* The sequences of trees with n nodes in all; `types` are the trees with
   n nodes. *)
ArgsOfSize(n, level, types) == {<<t>> : t \in types} \cup ArgsSplit(n, n - 1, level)

(* level[k], for k up to n: the trees and the argument lists of size k,
   each set built once. *)
Extend(n, lower) ==
    CHOOSE r \in {Append(level, [types |-> types, args |-> ArgsOfSize(n, level, types)]) :
                     level \in {lower}, types \in {TypesOfSize(n, lower)}} : TRUE

RECURSIVE Levels(_)
Levels(n) == IF n = 0 THEN <<>> ELSE Extend(n, Levels(n - 1))

RECURSIVE TypesUpTo(_, _)
TypesUpTo(n, level) ==
    IF n = 0 THEN {} ELSE level[n].types \cup TypesUpTo(n - 1, level)

(* The trees of fewer than MaxNodes nodes, by size. *)
Smaller == Levels(MaxNodes - 1)

(* The types an operation is called on, in parts: the tree of the module's
   test, the trees of fewer than MaxNodes nodes, and for each head the trees
   of MaxNodes nodes. *)
Types(part) ==
    IF part = <<"test", "">> THEN {ExampleTy}
    ELSE IF part = <<"smaller", "">> THEN TypesUpTo(MaxNodes - 1, Smaller)
    ELSE TypesHeaded(part, MaxNodes, Smaller)

Parts == Heads \cup {<<"test", "">>, <<"smaller", "">>}

(* The known-macros lists and the generic-identifier lists of the calls. *)
KnownMacroLists == {<<>>, <<"m">>}
GenericLists == {<<>>, <<"T">>}

(***************************************************************************)
(* IdentExt::uniqueify_with, called from several threads of one process.   *)
(* A call hashes the identifier, the process id and the thread id, then    *)
(* the value COUNTER.fetch_add(1) returns, then what f writes, and appends *)
(* "_" and the digest to the identifier.                                   *)
(***************************************************************************)
MaxThreads == 2
MaxCalls == 3
MaxDigest == 1

Threads == 1..MaxThreads

(* What DefaultHasher::finish may return.  std leaves the algorithm
   unspecified: the digest is some function of what was written. *)
Digests == 0..MaxDigest

(* The identifier every call is made on, and what every call's f writes. *)
SelfIdent == "x"
ExtraEntropy == "f"

(* std::process::id() and std::thread::current().id() *)
ProcessId == "pid"
ThreadId(t) == t

(* A variant of the hasher's input without the counter. *)
HashInput_no_counter(t, counter) == <<SelfIdent, ProcessId, ThreadId(t), ExtraEntropy>>

(* What one call writes to its hasher, in order. *)
HashInput(t, counter) == <<SelfIdent, ProcessId, ThreadId(t), counter, ExtraEntropy>>

(* IdentExt::append of format!("_{}", digest) *)
append_digest(ident, digest) == <<ident, "_", digest>>

VARIABLES
    ty,            \* the type expression the operation is called on
    known_macros,  \* the known_macros argument of the call
    generics,      \* the generics argument of the call
    op,            \* the operation called, "new" before any
    children,      \* what unfold / unfold_with_known_macros returned
    concrete,      \* what is_concrete returned
    inspected,     \* the positions ConcreteVisitor::visit_type was called on
    COUNTER,       \* the static AtomicUsize of uniqueify_with
    pc,            \* per thread: its place in uniqueify_with
    value,         \* per thread: what its fetch_add returned
    calls,         \* the calls of uniqueify_with begun
    digests,       \* the digests the hasher gave so far, input -> digest
    returned       \* the calls that returned: thread, counter, input, ident

type_vars == <<ty, known_macros, generics, op, children, concrete, inspected>>
uniq_vars == <<COUNTER, pc, value, calls, digests, returned>>
vars == <<type_vars, uniq_vars>>

TypeInit ==
    /\ op = "new"
    /\ known_macros = <<>>
    /\ generics = <<>>
    /\ children = <<>>
    /\ concrete = TRUE
    /\ inspected = {}

UniqInit ==
    /\ COUNTER = 0
    /\ pc = [t \in Threads |-> "idle"]
    /\ value = [t \in Threads |-> 0]
    /\ calls = 0
    /\ digests = {}
    /\ returned = <<>>

(* ty.unfold() *)
Unfold ==
    /\ op = "new"
    /\ op' = "unfold"
    /\ children' = unfold(ty)
    /\ UNCHANGED <<ty, known_macros, generics, concrete, inspected, uniq_vars>>

(* ty.unfold_with_known_macros(known) *)
UnfoldWithKnownMacros ==
    /\ op = "new"
    /\ \E known \in KnownMacroLists :
          /\ known_macros' = known
          /\ children' = unfold_with_known_macros(ty, known)
    /\ op' = "unfold_with_known_macros"
    /\ UNCHANGED <<ty, generics, concrete, inspected, uniq_vars>>

(* ty.is_concrete(gen) *)
IsConcrete ==
    /\ op = "new"
    /\ \E gen \in GenericLists :
          /\ generics' = gen
          /\ concrete' = is_concrete(ty, gen)
          /\ inspected' = ConcreteVisitor_run(ty, gen).seen
    /\ op' = "is_concrete"
    /\ UNCHANGED <<ty, known_macros, children, uniq_vars>>

Init == (\E part \in Parts : ty \in Types(part)) /\ TypeInit /\ UniqInit

Next == Unfold \/ UnfoldWithKnownMacros \/ IsConcrete

Spec == Init /\ [][Next]_vars

(* uniqueify_with up to the fetch_add: the hasher holds the identifier,
   the process id and the thread id. *)
Call(t) ==
    /\ pc[t] = "idle"
    /\ calls < MaxCalls
    /\ calls' = calls + 1
    /\ pc' = [pc EXCEPT ![t] = "hashed"]
    /\ UNCHANGED <<COUNTER, value, digests, returned, type_vars>>

(* A variant of the fetch_add as a load and a later store: the value may
   be one read before other calls' increments. *)
FetchAdd_load_then_store(t) ==
    /\ pc[t] = "hashed"
    /\ \E stale \in 0..COUNTER :
          /\ value' = [value EXCEPT ![t] = stale]
          /\ COUNTER' = stale + 1
    /\ pc' = [pc EXCEPT ![t] = "counted"]
    /\ UNCHANGED <<calls, digests, returned, type_vars>>

(* COUNTER.fetch_add(1, AcqRel): one atomic read-modify-write. *)
FetchAdd(t) ==
    /\ pc[t] = "hashed"
    /\ value' = [value EXCEPT ![t] = COUNTER]
    /\ COUNTER' = COUNTER + 1
    /\ pc' = [pc EXCEPT ![t] = "counted"]
    /\ UNCHANGED <<calls, digests, returned, type_vars>>

(* f(&mut hasher); self.append(&format!("_{}", hasher.finish())) *)
Finish(t) ==
    /\ pc[t] = "counted"
    /\ LET input == HashInput(t, value[t])
       IN  \E d \in Digests :
              /\ \A e \in digests : e[1] = input => e[2] = d
              /\ digests' = digests \cup {<<input, d>>}
              /\ returned' = Append(returned,
                                    [thread |-> t, counter |-> value[t], input |-> input,
                                     ident |-> append_digest(SelfIdent, d)])
    /\ pc' = [pc EXCEPT ![t] = "idle"]
    /\ UNCHANGED <<COUNTER, value, calls, type_vars>>

UniqNext == \E t \in Threads : Call(t) \/ FetchAdd(t) \/ Finish(t)

UniqueifyInit == ty = ExampleTy /\ TypeInit /\ UniqInit

SpecUniq == UniqueifyInit /\ [][UniqNext]_vars

(***************************************************************************)
(* The vocabulary of the properties: positions of a tree, stated without   *)
(* the visitors.                                                           *)
(***************************************************************************)
IsPrefix(p, q) == Len(p) <= Len(q) /\ SubSeq(q, 1, Len(p)) = p
IsProperPrefix(p, q) == Len(p) < Len(q) /\ IsPrefix(p, q)

(* p comes before q in depth-first pre-order. *)
PreOrderBefore(p, q) ==
    \/ IsProperPrefix(p, q)
    \/ \E n \in 1..Len(p) :
          /\ n <= Len(q)
          /\ SubSeq(p, 1, n - 1) = SubSeq(q, 1, n - 1)
          /\ p[n] < q[n]

RECURSIVE NodeAt(_, _)
NodeAt(t, id) ==
    IF Len(id) = 0 THEN t
    ELSE IF id[1] = 0 THEN NodeAt(Unwrap(t.tokens.ty), Tail(id))
    ELSE NodeAt(t.args[id[1]], Tail(id))

IsKnown(t, known) == t.kind = "Macro" /\ \E k \in DOMAIN known : known[k] = t.ident

(* A macro invocation on the list whose token stream is exactly one type. *)
Expands(t, known) == IsKnown(t, known) /\ t.tokens.ty # None /\ ~ t.tokens.junk

(* The positions below (and including) id that a traversal with `known`
   comes to: the type nodes of the tree, and those of the expansion of each
   macro invocation that expands. *)
RECURSIVE Reached(_, _, _)
Reached(t, id, known) ==
    {id} \cup
    IF Expands(t, known)
    THEN Reached(Unwrap(t.tokens.ty), Append(id, 0), known)
    ELSE UNION {Reached(t.args[i], Append(id, i), known) : i \in DOMAIN t.args}

(* The syntactic type nodes of the tree. *)
TypeNodes(t) == Reached(t, <<>>, <<>>)

(* The nearest enclosing position of id that is not an expanded macro. *)
EnclosingNode(root, id, known) ==
    LET encl == {n \in 0..(Len(id) - 1) : ~ Expands(NodeAt(root, SubSeq(id, 1, n)), known)}
    IN  IF encl = {} THEN None
        ELSE Some(SubSeq(id, 1, CHOOSE n \in encl : \A m \in encl : m <= n))

ChildAt(id) == {i \in DOMAIN children : children[i].ty = id}

Unfolded == op \in {"unfold", "unfold_with_known_macros"}

(***************************************************************************)
(* C4: with an empty known-macros list, unfold returns exactly one Child   *)
(* per syntactic type node of the tree, the root included (8 for           *)
(* A<B, C<impl Foo>, Box<dyn Foo>, Option<T>>), in depth-first pre-order,  *)
(* and each Child's parent is the node's nearest enclosing type node.      *)
(***************************************************************************)
UnfoldListsEveryNodeInPreOrder ==
    (Unfolded /\ known_macros = <<>>) =>
        /\ Len(children) = Cardinality(TypeNodes(ty))
        /\ {children[i].ty : i \in DOMAIN children} = TypeNodes(ty)
        /\ \A i, j \in DOMAIN children :
              i < j => PreOrderBefore(children[i].ty, children[j].ty)
        /\ \A i \in DOMAIN children :
              LET id == children[i].ty
              IN  children[i].parent =
                      IF Len(id) = 0 THEN None ELSE Some(SubSeq(id, 1, Len(id) - 1))
        /\ (ty = ExampleTy => Len(children) = 8)

UnfoldExampleHasEightNodes ==
    op = "unfold" /\ ty = ExampleTy /\ Len(children) = 8

(***************************************************************************)
(* C2 as stated: no Child of unfold_with_known_macros has as its ty a      *)
(* macro invocation whose name is in the known-macros list.                *)
(***************************************************************************)
NoKnownMacroChild ==
    Unfolded =>
        \A i \in DOMAIN children : ~ IsKnown(NodeAt(ty, children[i].ty), known_macros)

(***************************************************************************)
(* C2 amended: no Child has as its ty a macro invocation whose name is in  *)
(* the known-macros list and whose tokens parse as a type; every such      *)
(* invocation the traversal comes to is replaced by nodes of its           *)
(* expansion.                                                              *)
(***************************************************************************)
NoExpandedMacroChild ==
    Unfolded =>
        /\ \A i \in DOMAIN children : ~ Expands(NodeAt(ty, children[i].ty), known_macros)
        /\ \A id \in Reached(ty, <<>>, known_macros) :
              Expands(NodeAt(ty, id), known_macros) =>
                  /\ ChildAt(id) = {}
                  /\ \E i \in DOMAIN children : IsPrefix(Append(id, 0), children[i].ty)

KnownMacroWasExpanded ==
    /\ op = "unfold_with_known_macros"
    /\ \E id \in Reached(ty, <<>>, known_macros) :
          /\ Len(id) > 0
          /\ Expands(NodeAt(ty, id), known_macros)
          /\ ChildAt(Append(id, 0)) # {}

(* The node that stands for the root in the output: the root, or what the
   root expands to. *)
RECURSIVE EffectiveRoot(_, _, _)
EffectiveRoot(t, id, known) ==
    IF Expands(t, known)
    THEN EffectiveRoot(Unwrap(t.tokens.ty), Append(id, 0), known)
    ELSE id

(***************************************************************************)
(* C3 as stated: each Child of unfold_with_known_macros has parent = None  *)
(* if and only if its ty is the root node of the tree unfold was called    *)
(* on, also when the root is a known macro invocation.                     *)
(***************************************************************************)
ParentNoneIffRoot ==
    Unfolded =>
        \A i \in DOMAIN children : (children[i].parent = None) <=> (children[i].ty = <<>>)

(***************************************************************************)
(* C3 amended: there is exactly one Child with parent = None, and its ty   *)
(* is the root node, or, when the root is a known macro invocation whose   *)
(* tokens parse, the type the root expands to (through any chain of such   *)
(* invocations).                                                           *)
(***************************************************************************)
ParentNoneIffEffectiveRoot ==
    Unfolded =>
        /\ \A i \in DOMAIN children :
              (children[i].parent = None)
                  <=> (children[i].ty = EffectiveRoot(ty, <<>>, known_macros))
        /\ Cardinality(ChildAt(EffectiveRoot(ty, <<>>, known_macros))) = 1

RootMacroWasExpanded ==
    /\ op = "unfold_with_known_macros"
    /\ Expands(ty, known_macros)
    /\ Len(children) > 1
    /\ children[1] = Child(None, EffectiveRoot(ty, <<>>, known_macros))

(* The tree with every macro invocation that is on the list but does not
   parse renamed to a name that is on no list. *)
RECURSIVE AsUnknown(_, _)
AsUnknown(t, known) ==
    IF t.kind = "Macro"
    THEN IF IsKnown(t, known) /\ parse2(t.tokens) = None
         THEN [t EXCEPT !.ident = "unknown"]
         ELSE IF t.tokens.ty = None THEN t
              ELSE [t EXCEPT !.tokens.ty = Some(AsUnknown(Unwrap(t.tokens.ty), known))]
    ELSE [t EXCEPT !.args = [i \in DOMAIN t.args |-> AsUnknown(t.args[i], known)]]

(***************************************************************************)
(* C7: a macro invocation whose name is in the known-macros list but whose *)
(* tokens fail to parse as a type is treated exactly like an unknown       *)
(* macro: it is recorded as a Child with the current parent, it is not     *)
(* expanded, and the rest of the traversal is unchanged.                   *)
(***************************************************************************)
UnparseableKnownMacroIsLeaf ==
    op = "unfold_with_known_macros" =>
        /\ \A id \in Reached(ty, <<>>, known_macros) :
              LET n == NodeAt(ty, id)
              IN  (IsKnown(n, known_macros) /\ parse2(n.tokens) = None) =>
                      /\ \E i \in ChildAt(id) :
                            children[i].parent = EnclosingNode(ty, id, known_macros)
                      /\ \A i \in DOMAIN children : ~ IsProperPrefix(id, children[i].ty)
        /\ children = unfold_with_known_macros(AsUnknown(ty, known_macros), known_macros)

UnparseableKnownMacroWasMet ==
    /\ op = "unfold_with_known_macros"
    /\ \E id \in Reached(ty, <<>>, known_macros) :
          LET n == NodeAt(ty, id)
          IN  /\ Len(id) > 0
              /\ IsKnown(n, known_macros)
              /\ n.tokens.ty # None
              /\ parse2(n.tokens) = None
              /\ ChildAt(id) # {}
              /\ Len(children) > Cardinality(ChildAt(id)) + 1

(* The positions above id that are recorded, outermost first. *)
RecordedAncestors(root, id, known) ==
    LET F[n \in 0..Len(id)] ==
            IF n = 0 THEN <<>>
            ELSE IF Expands(NodeAt(root, SubSeq(id, 1, n - 1)), known)
                 THEN F[n - 1]
                 ELSE Append(F[n - 1], SubSeq(id, 1, n - 1))
    IN  F[Len(id)]

StackUntouched(id) ==
    LET stack == RecordedAncestors(ty, id, known_macros)
    IN  Visitor_visit_type([parents |-> stack, children |-> <<>>],
                           NodeAt(ty, id), id, known_macros).parents = stack

(***************************************************************************)
(* C10 as stated: for a known macro invocation N (with parent P) whose     *)
(* tokens parse to M, the output has no Child for N and no Child for M;    *)
(* only M's descendants appear, every one of them with P as its parent,    *)
(* and the caller's ancestor stack is the same before and after.           *)
(***************************************************************************)
ExpansionRootIsElided ==
    Unfolded =>
        \A id \in Reached(ty, <<>>, known_macros) :
            Expands(NodeAt(ty, id), known_macros) =>
                LET M == Append(id, 0)
                    P == EnclosingNode(ty, id, known_macros)
                IN  /\ ChildAt(id) = {}
                    /\ ChildAt(M) = {}
                    /\ \A i \in DOMAIN children :
                          IsProperPrefix(M, children[i].ty) => children[i].parent = P
                    /\ StackUntouched(id)

(***************************************************************************)
(* C10 amended: the output has no Child for N; M is recorded as a Child    *)
(* with parent P (unless M is again a known macro invocation that parses,  *)
(* which is expanded in the same way); each descendant of M has as parent  *)
(* its nearest enclosing recorded node, which lies inside the expansion    *)
(* (M for M's direct subcomponents); and the caller's ancestor stack is    *)
(* the same before and after visiting N.                                   *)
(***************************************************************************)
ExpansionRootTakesMacroParent ==
    Unfolded =>
        \A id \in Reached(ty, <<>>, known_macros) :
            Expands(NodeAt(ty, id), known_macros) =>
                LET M == Append(id, 0)
                    P == EnclosingNode(ty, id, known_macros)
                IN  /\ ChildAt(id) = {}
                    /\ ~ Expands(NodeAt(ty, M), known_macros) =>
                          /\ Cardinality(ChildAt(M)) = 1
                          /\ \A i \in ChildAt(M) : children[i].parent = P
                          /\ \A a \in DOMAIN NodeAt(ty, M).args :
                                ~ Expands(NodeAt(ty, Append(M, a)), known_macros) =>
                                    \E i \in ChildAt(Append(M, a)) : children[i].parent = Some(M)
                    /\ \A i \in DOMAIN children :
                          IsProperPrefix(M, children[i].ty) =>
                              /\ children[i].parent =
                                     EnclosingNode(ty, children[i].ty, known_macros)
                              /\ (~ Expands(NodeAt(ty, M), known_macros)
                                     => IsPrefix(M, Unwrap(children[i].parent)))
                    /\ StackUntouched(id)

NestedMacroWasExpanded ==
    /\ op = "unfold_with_known_macros"
    /\ \E id \in Reached(ty, <<>>, known_macros) :
          LET M == Append(id, 0)
          IN  /\ Len(id) > 0
              /\ Expands(NodeAt(ty, id), known_macros)
              /\ ~ Expands(NodeAt(ty, M), known_macros)
              /\ Len(NodeAt(ty, M).args) > 0
              /\ \E i \in ChildAt(M) : children[i].parent = Some(SubSeq(id, 1, Len(id) - 1))
              /\ \E i \in ChildAt(Append(M, 1)) : children[i].parent = Some(M)

(* A bare path equal to one of the generic identifiers. *)
IsGenericPath(t, gen) == t.kind = "Path" /\ \E g \in DOMAIN gen : is_ident(t, gen[g])

(* Whether position id lies inside a function-pointer type. *)
InsideFnPointer(root, id) ==
    \E n \in 0..(Len(id) - 1) : NodeAt(root, SubSeq(id, 1, n)).kind = "BareFn"

(***************************************************************************)
(* C1: if the tree contains, at any nesting depth and in any position, a   *)
(* bare path equal to one of the generic identifiers, is_concrete on the   *)
(* root returns false.  Positions inside a function pointer are left out   *)
(* here: is_concrete is specified not to look inside one (C8).             *)
(***************************************************************************)
GenericPathAnywhereIsNotConcrete ==
    op = "is_concrete" =>
        ((\E id \in TypeNodes(ty) :
              IsGenericPath(NodeAt(ty, id), generics) /\ ~ InsideFnPointer(ty, id))
            => concrete = FALSE)

(***************************************************************************)
(* C8: is_concrete on a function-pointer type or on the never type returns *)
(* true whatever the parameter and return types contain, and those inner   *)
(* types are not inspected.                                                *)
(***************************************************************************)
FnPointerAndNeverAreConcrete ==
    (op = "is_concrete" /\ ty.kind \in {"BareFn", "Never"}) =>
        /\ concrete = TRUE
        /\ inspected = {<<>>}

FnPointerOverGenericWasChecked ==
    /\ op = "is_concrete"
    /\ ty.kind = "BareFn"
    /\ \E id \in TypeNodes(ty) : IsGenericPath(NodeAt(ty, id), generics)
    /\ \E id \in TypeNodes(ty) : NodeAt(ty, id).kind \in {"ImplTrait", "Infer", "Macro"}
    /\ concrete = TRUE

(* A node the fourth arm of ConcreteVisitor::visit_type handles. *)
IsComposite(t, gen) ==
    /\ ~ IsGenericPath(t, gen)
    /\ t.kind \notin {"ImplTrait", "Infer", "Macro", "BareFn", "Never"}

(***************************************************************************)
(* C9: for a composite node (not a generic-identifier path, impl Trait,    *)
(* inferred, macro, function-pointer or never type) is_concrete is true if *)
(* and only if it is true of every one of its type subcomponents, whatever *)
(* their order; in the unfold of A<B, C<impl Foo>, Box<dyn Foo>,           *)
(* Option<T>> with generics {T} exactly 3 of the 8 nodes are concrete.     *)
(***************************************************************************)
ConcreteIsConjunctionOfSubcomponents ==
    /\ (op = "is_concrete" /\ IsComposite(ty, generics)) =>
          (concrete <=> \A i \in DOMAIN ty.args : is_concrete(ty.args[i], generics))
    /\ (op = "unfold" /\ ty = ExampleTy) =>
          Cardinality({i \in DOMAIN children :
                          is_concrete(NodeAt(ty, children[i].ty), <<"T">>)}) = 3

Observed ==
    [i \in DOMAIN returned |-> returned[i].counter]
        \o [k \in 1..Cardinality({t \in Threads : pc[t] = "counted"}) |->
               value[CHOOSE t \in Threads :
                        /\ pc[t] = "counted"
                        /\ Cardinality({u \in Threads : pc[u] = "counted" /\ u < t}) = k - 1]]

(***************************************************************************)
(* C6: COUNTER is read and incremented in one indivisible step: under      *)
(* every interleaving no two calls observe the same counter value, and     *)
(* after n completed calls the counter has advanced by exactly n.          *)
(***************************************************************************)
CounterValuesAreDistinct ==
    /\ \A i, j \in DOMAIN Observed : i # j => Observed[i] # Observed[j]
    /\ COUNTER = Len(Observed)
    /\ (\A t \in Threads : pc[t] = "idle") => COUNTER = Len(returned)

ConcurrentCallsCounted ==
    /\ \A t \in Threads : pc[t] = "idle"
    /\ Len(returned) = MaxCalls
    /\ \E i \in DOMAIN returned :
          /\ i < Len(returned)
          /\ returned[i].thread # returned[i + 1].thread
          /\ returned[i].counter > returned[i + 1].counter

=============================================================================
